---------------------------- MODULE Spec2Model ----------------------------
(***************************************************************************)
(* A model of src/script.py: class MobiusStrip (construction of the        *)
(* parameter grid and mesh, compute_surface_area, compute_edge_length,     *)
(* plot) together with the NumPy and SciPy routines it calls               *)
(* (np.linspace, np.meshgrid, np.gradient, scipy.integrate.simpson).       *)
(*                                                                         *)
(* Numbers.  The program computes in float64.  The model computes in       *)
(* signed fixed point: the integer a stands for the real a / Scale, every  *)
(* product and quotient is rounded to the nearest multiple of 1 / Scale    *)
(* (ties away from zero, so that rounding commutes with negation as IEEE   *)
(* round-to-nearest does).  Equalities that hold for reals up to rounding  *)
(* are therefore stated up to a tolerance, as they would be for floats.    *)
(* Indices: the code's 0-based index k is k + 1 here.                      *)
(***************************************************************************)
EXTENDS Integers, Sequences, FiniteSets

\* ------------------------------------------------------------------ bounds
\* Largest resolution n handed to the constructor.
MaxN == 5
\* Largest number of figures shown by plot() that the model counts.
MaxPlots == 1

\* ------------------------------------------------------- number arithmetic
\* Resolution of the fixed-point reals: a stands for a / Scale.
Scale == 1000
\* np.pi, rounded to the resolution.
Pi == 3142

Abs(a) == IF a < 0 THEN -a ELSE a

Sign(a) == IF a < 0 THEN -1 ELSE 1

\* The integer quotient a / b rounded to nearest, ties away from zero (b # 0).
RDiv(a, b) == Sign(a) * Sign(b) * ((2 * Abs(a) + Abs(b)) \div (2 * Abs(b)))

\* Product of two reals.
Mul(a, b) == RDiv(a * b, Scale)

\* Quotient of two reals (b # 0).
Div(a, b) == RDiv(a * Scale, b)

\* The real that stands for the integer literal k (Python int -> float).
Num(k) == k * Scale

RECURSIVE ISqrtFrom(_, _)
\* Newton iteration for the integer square root of m, from a guess r >= isqrt(m).
ISqrtFrom(m, r) ==
    LET r2 == (r + m \div r) \div 2
    IN  IF r2 >= r THEN r ELSE ISqrtFrom(m, r2)

\* np.sqrt on a nonnegative real: floor(sqrt(a / Scale) * Scale).
Sqrt(a) == IF a <= 0 THEN 0 ELSE ISqrtFrom(a * Scale, a * Scale)

RECURSIVE SinSeries(_, _, _, _)
\* The Taylor series of sin at a, a in [0, pi/2]: the sum of the terms from
\* the k-th on, term being the (k-1)-th term and a2 = a * a.
SinSeries(term, a2, k, last) ==
    IF k > last THEN 0
    ELSE LET t == -RDiv(Mul(term, a2), (2 * k) * (2 * k + 1))
         IN  t + SinSeries(t, a2, k + 1, last)

SinQuadrant(a) == a + SinSeries(a, Mul(a, a), 1, 4)

\* np.sin: reduction of the angle to the first quadrant, then the series.
Sin(a) ==
    LET r == a % (2 * Pi)
        h == RDiv(Pi, 2)
    IN  IF r <= h THEN SinQuadrant(r)
        ELSE IF r <= Pi THEN SinQuadrant(Pi - r)
        ELSE IF r <= Pi + h THEN -SinQuadrant(r - Pi)
        ELSE -SinQuadrant(2 * Pi - r)

\* np.cos.
Cos(a) == Sin(a + RDiv(Pi, 2))

\* ----------------------------------------------------------- array helpers
\* Column j of a 2-D array (a sequence of rows).
Column(a, j) == [i \in 1..Len(a) |-> a[i][j]]

\* ------------------------------------------------------------ constructor
\* np.linspace(start, stop, num) with endpoint=True: num samples,
\* step = (stop - start) / (num - 1), y[j] = start + j * step, and the last
\* sample set to stop exactly.  num = 1 gives [start].
linspace(start, stop, num) ==
    IF num = 1 THEN << start >>
    ELSE LET step == RDiv(stop - start, num - 1)
         IN  [j \in 1..num |-> IF j = num THEN stop ELSE start + (j - 1) * step]

\* Variant of meshgrid_U with indexing='ij': U[i][j] = u[i].
meshgrid_U_ij(uu, vv) == [i \in 1..Len(uu) |-> [j \in 1..Len(vv) |-> uu[i]]]

\* np.meshgrid(u, v) with the default indexing='xy': both outputs have
\* Len(v) rows and Len(u) columns, U[i][j] = u[j], V[i][j] = v[i].
meshgrid_U(uu, vv) == [i \in 1..Len(vv) |-> [j \in 1..Len(uu) |-> uu[j]]]

meshgrid_V(uu, vv) == [i \in 1..Len(vv) |-> [j \in 1..Len(uu) |-> vv[i]]]

\* _parametric_equations at one point (u0, v0), for a strip of radius R0:
\* << x, y, z >>.
parametric_equations(R0, u0, v0) ==
    LET r == R0 + Mul(v0, Cos(RDiv(u0, 2)))
    IN  << Mul(r, Cos(u0)), Mul(r, Sin(u0)), Mul(v0, Sin(RDiv(u0, 2))) >>

\* _parametric_equations broadcast over two 2-D arrays of the same shape;
\* c selects the coordinate (1 = x, 2 = y, 3 = z).
parametric_equations_2d(R0, UU, VV, c) ==
    [i \in 1..Len(UU) |->
        [j \in 1..Len(UU[i]) |-> parametric_equations(R0, UU[i][j], VV[i][j])[c]]]

\* _parametric_equations broadcast over a 1-D array of angles and a scalar v.
parametric_equations_1d(R0, uu, v0, c) ==
    [j \in 1..Len(uu) |-> parametric_equations(R0, uu[j], v0)[c]]

\* ------------------------------------------------------------- np.gradient
\* Variant of gradient_uniform that takes the forward difference at every
\* index but the last.
gradient_uniform_forward(f, h) ==
    LET m == Len(f)
    IN  [k \in 1..m |->
            IF k = m THEN Div(f[m] - f[m - 1], h) ELSE Div(f[k + 1] - f[k], h)]

\* np.gradient(f, h) on a 1-D array with a scalar spacing h and the default
\* edge_order=1: central differences inside, one-sided at the two ends.
gradient_uniform(f, h) ==
    LET m == Len(f)
    IN  [k \in 1..m |->
            IF k = 1 THEN Div(f[2] - f[1], h)
            ELSE IF k = m THEN Div(f[m] - f[m - 1], h)
            ELSE Div(f[k + 1] - f[k - 1], 2 * h)]

\* np.gradient(f, xs) on a 1-D array with the sample coordinates xs: when the
\* spacings of xs are all equal the scalar case is used, otherwise the
\* second-order formula for uneven spacing inside and one-sided differences
\* at the two ends.
gradient_coords(f, xs) ==
    LET m == Len(f)
        diffx == [k \in 1..(m - 1) |-> xs[k + 1] - xs[k]]
    IN  IF \A k \in 1..(m - 1) : diffx[k] = diffx[1]
        THEN gradient_uniform(f, diffx[1])
        ELSE [k \in 1..m |->
                IF k = 1 THEN Div(f[2] - f[1], diffx[1])
                ELSE IF k = m THEN Div(f[m] - f[m - 1], diffx[m - 1])
                ELSE LET dx1 == diffx[k - 1]
                         dx2 == diffx[k]
                         a == -Div(dx2, Mul(dx1, dx1 + dx2))
                         b == Div(dx2 - dx1, Mul(dx1, dx2))
                         c == Div(dx1, Mul(dx2, dx1 + dx2))
                     IN  Mul(a, f[k - 1]) + Mul(b, f[k]) + Mul(c, f[k + 1])]

\* Variant of gradient that is not handed the spacing (np.gradient(a,
\* axis=axis)), so that the spacing is 1.
gradient_unit_spacing(a, h, axis) ==
    IF axis = 1
    THEN [i \in 1..Len(a) |-> gradient_uniform(a[i], Num(1))]
    ELSE [i \in 1..Len(a) |->
            [j \in 1..Len(a[i]) |-> gradient_uniform(Column(a, j), Num(1))[i]]]

\* np.gradient(a, h, axis=axis) on a 2-D array: axis 1 differentiates along
\* each row (across the columns), axis 0 along each column (across the rows).
gradient(a, h, axis) ==
    IF axis = 1
    THEN [i \in 1..Len(a) |-> gradient_uniform(a[i], h)]
    ELSE [i \in 1..Len(a) |->
            [j \in 1..Len(a[i]) |-> gradient_uniform(Column(a, j), h)[i]]]

\* Variant of gradient_too_small for edge_order=2, which needs 3 elements.
gradient_too_small_order2(m) == m < 3

\* np.gradient raises ValueError when the array has fewer than
\* edge_order + 1 = 2 elements along the axis.
gradient_too_small(m) == m < 2

\* ------------------------------------------------ scipy.integrate.simpson
RECURSIVE basic_simpson_sum_minus(_, _, _)
\* Variant of basic_simpson_sum with the middle weight negated.
basic_simpson_sum_minus(yy, start, stop) ==
    IF start >= stop THEN 0
    ELSE yy[start + 1] - 4 * yy[start + 2] + yy[start + 3]
         + basic_simpson_sum_minus(yy, start + 2, stop)

RECURSIVE basic_simpson_sum(_, _, _)
\* The sum over the panels k = start, start + 2, ... (k < stop, 0-based) of
\* y[k] + 4 y[k+1] + y[k+2]: _basic_simpson for evenly spaced samples.
basic_simpson_sum(yy, start, stop) ==
    IF start >= stop THEN 0
    ELSE yy[start + 1] + 4 * yy[start + 2] + yy[start + 3]
         + basic_simpson_sum(yy, start + 2, stop)

RECURSIVE basic_simpson_x(_, _, _, _)
\* The same sum for samples at the coordinates xs: _basic_simpson with x given.
basic_simpson_x(yy, start, stop, xs) ==
    IF start >= stop THEN 0
    ELSE LET h0 == xs[start + 2] - xs[start + 1]
             h1 == xs[start + 3] - xs[start + 2]
             hsum == h0 + h1
             hprod == Mul(h0, h1)
             h0divh1 == Div(h0, h1)
         IN  Mul(RDiv(hsum, 6),
                 Mul(yy[start + 1], Num(2) - Div(Num(1), h0divh1))
                 + Mul(yy[start + 2], Mul(hsum, Div(hsum, hprod)))
                 + Mul(yy[start + 3], Num(2) - h0divh1))
             + basic_simpson_x(yy, start + 2, stop, xs)

\* _basic_simpson(y, start, stop, x, dx): xs = << >> stands for x=None.
basic_simpson(yy, start, stop, xs, dx) ==
    IF xs = << >>
    THEN Mul(basic_simpson_sum(yy, start, stop), RDiv(dx, 3))
    ELSE basic_simpson_x(yy, start, stop, xs)

\* simpson on an even number N >= 2 of samples, SciPy 1.6 to 1.10
\* (even='avg'): the mean of Simpson on the first N - 2 intervals plus a
\* trapezoid on the last, and Simpson on the last N - 2 intervals plus a
\* trapezoid on the first.
simpson_even_avg(yy, xs, dx) ==
    LET N == Len(yy)
        last_dx == IF xs = << >> THEN dx ELSE xs[N] - xs[N - 1]
        first_dx == IF xs = << >> THEN dx ELSE xs[2] - xs[1]
        val == Mul(Mul(RDiv(Scale, 2), last_dx), yy[N] + yy[N - 1])
               + Mul(Mul(RDiv(Scale, 2), first_dx), yy[2] + yy[1])
        result == basic_simpson(yy, 0, N - 3, xs, dx)
                  + basic_simpson(yy, 1, N - 2, xs, dx)
    IN  RDiv(result, 2) + RDiv(val, 2)

\* simpson on an even number N >= 2 of samples, SciPy 1.11 and later
\* (even='simpson'): a trapezoid when N = 2, otherwise Simpson on the first
\* N - 2 intervals plus Cartwright's correction for the last interval.
simpson_even_cartwright(yy, xs, dx) ==
    LET N == Len(yy)
        last_dx == IF xs = << >> THEN dx ELSE xs[N] - xs[N - 1]
        h0 == IF xs = << >> THEN dx ELSE xs[N - 1] - xs[N - 2]
        h1 == last_dx
        alpha == Div(2 * Mul(h1, h1) + 3 * Mul(h0, h1), 6 * (h1 + h0))
        beta == Div(Mul(h1, h1) + 3 * Mul(h0, h1), 6 * h0)
        eta == Div(Mul(Mul(h1, h1), h1), 6 * Mul(h0, h0 + h1))
    IN  IF N = 2
        THEN Mul(Mul(RDiv(Scale, 2), last_dx), yy[N] + yy[N - 1])
        ELSE basic_simpson(yy, 0, N - 3, xs, dx)
             + Mul(alpha, yy[N]) + Mul(beta, yy[N - 1]) - Mul(eta, yy[N - 2])

\* simpson(y, x=xs, dx=dx) on a 1-D array; ev is the release's treatment of
\* an even number of samples.
simpson(yy, xs, dx, ev) ==
    LET N == Len(yy)
    IN  IF N % 2 = 1 THEN basic_simpson(yy, 0, N - 2, xs, dx)
        ELSE IF ev = "avg" THEN simpson_even_avg(yy, xs, dx)
        ELSE simpson_even_cartwright(yy, xs, dx)

\* simpson(a, dx=dx, axis=1) on a 2-D array: one integral per row.
simpson_axis1(a, dx, ev) == [i \in 1..Len(a) |-> simpson(a[i], << >>, dx, ev)]

\* ------------------------------------------------- the two computations
\* The area density of compute_surface_area at one grid node: the magnitude
\* of the cross product of the u-derivative (a) and the v-derivative (b).
cross_magnitude(ax, ay, az, bx, by, bz) ==
    LET cross_x == Mul(ay, bz) - Mul(az, by)
        cross_y == Mul(az, bx) - Mul(ax, bz)
        cross_z == Mul(ax, by) - Mul(ay, bx)
    IN  Sqrt(Mul(cross_x, cross_x) + Mul(cross_y, cross_y) + Mul(cross_z, cross_z))

\* cross_mag of compute_surface_area, from the six derivative arrays.
cross_mag_of(xu, yu, zu, xv, yv, zv) ==
    [i \in 1..Len(xu) |->
        [j \in 1..Len(xu[i]) |->
            cross_magnitude(xu[i][j], yu[i][j], zu[i][j],
                            xv[i][j], yv[i][j], zv[i][j])]]

\* Variant of inner_integral that integrates along axis 0: one partial
\* integral per column.
inner_integral_axis0(mag, du0, ev) ==
    [j \in 1..Len(mag[1]) |-> simpson(Column(mag, j), << >>, du0, ev)]

\* The inner quadrature of compute_surface_area: simpson(cross_mag, dx=du,
\* axis=1), a vector with one partial integral per row.
inner_integral(mag, du0, ev) == simpson_axis1(mag, du0, ev)

\* The body of compute_surface_area from the derivatives on, for a mesh
\* (mx, my, mz) and the steps du0, dv0.
surface_area(mx, my, mz, du0, dv0, ev) ==
    LET mag == cross_mag_of(gradient(mx, du0, 1), gradient(my, du0, 1),
                            gradient(mz, du0, 1), gradient(mx, dv0, 0),
                            gradient(my, dv0, 0), gradient(mz, dv0, 0))
    IN  simpson(inner_integral(mag, du0, ev), << >>, dv0, ev)

\* The steps of compute_surface_area.
step_du(n0) == Div(2 * Pi, Num(n0))

step_dv(w0, n0) == Div(w0, Num(n0))

\* dl of compute_edge_length for the edge curve at v = v_edge.
edge_dl(R0, n0, v_edge) ==
    LET u_edge == linspace(0, 2 * Pi, n0)
        dx == gradient_coords(parametric_equations_1d(R0, u_edge, v_edge, 1), u_edge)
        dy == gradient_coords(parametric_equations_1d(R0, u_edge, v_edge, 2), u_edge)
        dz == gradient_coords(parametric_equations_1d(R0, u_edge, v_edge, 3), u_edge)
    IN  [k \in 1..n0 |->
            Sqrt(Mul(dx[k], dx[k]) + Mul(dy[k], dy[k]) + Mul(dz[k], dz[k]))]

\* length of compute_edge_length (before the doubling) for the edge curve
\* at v = v_edge.
edge_length(R0, n0, v_edge, ev) ==
    simpson(edge_dl(R0, n0, v_edge), linspace(0, 2 * Pi, n0), 0, ev)

\* -------------------------------------------------------------------- state
VARIABLES
    pc,         \* "new" before __init__ has run, "ready" after it returned
    even,       \* simpson's treatment of an even sample count in the SciPy installed
    R, w, n,    \* self.R, self.w, self.n
    u, v,       \* self.u, self.v
    U, V,       \* self.U, self.V
    x, y, z,    \* self.x, self.y, self.z
    du, dv,     \* locals of the last compute_surface_area call
    dx_du, dy_du, dz_du, dx_dv, dy_dv, dz_dv,
    cross_mag,
    inner,      \* the value of the inner simpson(...) of line 65
    area,       \* the value the last compute_surface_area call returned
    areaRet,    \* how that call ended: "unset", "ok", "nan", "ValueError"
    length,     \* the value the last compute_edge_length call returned
    lengthRet,  \* how that call ended: "unset", "ok", "IndexError"
    figure,     \* what the last plot() call drew
    plots       \* number of plot() calls

params == << R, w, n >>
grid == << u, v, U, V >>
mesh == << x, y, z >>
area_locals == << du, dv, dx_du, dy_du, dz_du, dx_dv, dy_dv, dz_dv, cross_mag, inner >>
vars == << pc, even, R, w, n, u, v, U, V, x, y, z, du, dv, dx_du, dy_du, dz_du,
           dx_dv, dy_dv, dz_dv, cross_mag, inner, area, areaRet, length,
           lengthRet, figure, plots >>

\* The arguments tried for R and w (0, 1.0, 2.0) and for n (1 .. MaxN): the
\* constructor takes whatever it is given.
RChoices == {0, Num(1), Num(2)}
WChoices == {0, Num(1), Num(2)}
NChoices == 1..MaxN

Init ==
    /\ pc = "new"
    /\ even \in {"avg", "simpson"}
    /\ R = 0 /\ w = 0 /\ n = 0
    /\ u = << >> /\ v = << >> /\ U = << >> /\ V = << >>
    /\ x = << >> /\ y = << >> /\ z = << >>
    /\ du = 0 /\ dv = 0
    /\ dx_du = << >> /\ dy_du = << >> /\ dz_du = << >>
    /\ dx_dv = << >> /\ dy_dv = << >> /\ dz_dv = << >>
    /\ cross_mag = << >> /\ inner = << >>
    /\ area = 0 /\ areaRet = "unset"
    /\ length = 0 /\ lengthRet = "unset"
    /\ figure = << >> /\ plots = 0

\* MobiusStrip.__init__(R0, w0, n0): no argument is rejected.
init(R0, w0, n0) ==
    /\ pc = "new"
    /\ R' = R0 /\ w' = w0 /\ n' = n0
    /\ u' = linspace(0, 2 * Pi, n0)
    /\ v' = linspace(-RDiv(w0, 2), RDiv(w0, 2), n0)
    /\ U' = meshgrid_U(u', v')
    /\ V' = meshgrid_V(u', v')
    /\ x' = parametric_equations_2d(R0, U', V', 1)
    /\ y' = parametric_equations_2d(R0, U', V', 2)
    /\ z' = parametric_equations_2d(R0, U', V', 3)
    /\ pc' = "ready"
    /\ UNCHANGED << even, du, dv, dx_du, dy_du, dz_du, dx_dv, dy_dv, dz_dv,
                    cross_mag, inner, area, areaRet, length, lengthRet, figure, plots >>

\* MobiusStrip.compute_surface_area().  With n < 2 the first np.gradient
\* raises ValueError.  With dv = 0 (w = 0) every v-derivative is 0 / 0, so
\* every entry of cross_mag and the result are NaN.  The locals are recorded
\* when the call returns a number.
compute_surface_area ==
    /\ pc = "ready"
    /\ du' = step_du(n)
    /\ dv' = step_dv(w, n)
    /\ IF gradient_too_small(n)
       THEN /\ areaRet' = "ValueError"
            /\ area' = 0
            /\ dx_du' = << >> /\ dy_du' = << >> /\ dz_du' = << >>
            /\ dx_dv' = << >> /\ dy_dv' = << >> /\ dz_dv' = << >>
            /\ cross_mag' = << >> /\ inner' = << >>
       ELSE IF dv' = 0
       THEN /\ areaRet' = "nan"
            /\ area' = 0
            /\ dx_du' = << >> /\ dy_du' = << >> /\ dz_du' = << >>
            /\ dx_dv' = << >> /\ dy_dv' = << >> /\ dz_dv' = << >>
            /\ cross_mag' = << >> /\ inner' = << >>
       ELSE /\ dx_du' = gradient(x, du', 1)
            /\ dy_du' = gradient(y, du', 1)
            /\ dz_du' = gradient(z, du', 1)
            /\ dx_dv' = gradient(x, dv', 0)
            /\ dy_dv' = gradient(y, dv', 0)
            /\ dz_dv' = gradient(z, dv', 0)
            /\ cross_mag' = cross_mag_of(dx_du', dy_du', dz_du', dx_dv', dy_dv', dz_dv')
            /\ inner' = inner_integral(cross_mag', du', even)
            /\ area' = simpson(inner', << >>, dv', even)
            /\ areaRet' = "ok"
    /\ UNCHANGED << pc, even, params, grid, mesh, length, lengthRet, figure, plots >>

\* MobiusStrip.compute_edge_length().  With n = 1 np.gradient(x, u_edge)
\* raises IndexError (it reads the first of the n - 1 = 0 spacings).
compute_edge_length ==
    /\ pc = "ready"
    /\ IF n < 2
       THEN lengthRet' = "IndexError" /\ length' = 0
       ELSE /\ length' = edge_length(R, n, RDiv(w, 2), even) * 2
            /\ lengthRet' = "ok"
    /\ UNCHANGED << pc, even, params, grid, mesh, area_locals, area, areaRet,
                    figure, plots >>

\* Variant of plot that halves self.w in place where the code computes the
\* local v_edge = self.w / 2.
plot_halving_w ==
    /\ pc = "ready"
    /\ plots < MaxPlots
    /\ w' = RDiv(w, 2)
    /\ figure' = [surface |-> << x, y, z >>,
                  edge_pos |-> [c \in 1..3 |-> parametric_equations_1d(R, u, w', c)],
                  edge_neg |-> [c \in 1..3 |-> parametric_equations_1d(R, u, -w', c)],
                  title |-> << R, w' >>]
    /\ plots' = plots + 1
    /\ UNCHANGED << pc, even, R, n, grid, mesh, area_locals, area, areaRet,
                    length, lengthRet >>

\* MobiusStrip.plot(): draws the surface and the two edge curves.
plot ==
    /\ pc = "ready"
    /\ plots < MaxPlots
    /\ figure' = [surface |-> << x, y, z >>,
                  edge_pos |-> [c \in 1..3 |-> parametric_equations_1d(R, u, RDiv(w, 2), c)],
                  edge_neg |-> [c \in 1..3 |-> parametric_equations_1d(R, u, -RDiv(w, 2), c)],
                  title |-> << R, w >>]
    /\ plots' = plots + 1
    /\ UNCHANGED << pc, even, params, grid, mesh, area_locals, area, areaRet,
                    length, lengthRet >>

Next ==
    \/ \E R0 \in RChoices, w0 \in WChoices, n0 \in NChoices : init(R0, w0, n0)
    \/ compute_surface_area
    \/ compute_edge_length
    \/ plot

Spec == Init /\ [][Next]_vars

\* ------------------------------------------------------------- properties
\* The parameters the specification calls valid.
ValidParams == R > 0 /\ w > 0 /\ n >= 2

\* Rounding tolerances: 0.005 absolute, and 0.01 for the edge lengths.
AbsTol == Scale \div 200
EdgeTol == Scale \div 100

\* a and b agree up to rounding: within 4 % of the larger plus AbsTol.
CloseTo(a, b) ==
    Abs(a - b) * 25 <= (IF Abs(a) > Abs(b) THEN Abs(a) ELSE Abs(b)) + 25 * AbsTol

\* C1: a shape with R <= 0, w <= 0 or n < 2 is rejected by the constructor,
\* so no constructed instance (with its grid and mesh) has such parameters.
C1_InvalidParametersRejected == pc = "ready" => ValidParams

\* C2: after construction x, y and z all have shape (n, n), and element
\* (i, j) of each is the parametric evaluator at (u_j, v_i): the row selects
\* the width sample, the column the angular sample.
C2_MeshShapeAndAlignment ==
    pc = "ready" =>
        /\ Len(u) = n /\ Len(v) = n
        /\ \A a \in {x, y, z} : Len(a) = n /\ \A i \in 1..n : Len(a[i]) = n
        /\ \A i \in 1..n : \A j \in 1..n :
              << x[i][j], y[i][j], z[i][j] >> = parametric_equations(R, u[j], v[i])

\* A valid shape whose mesh tells rows from columns: an element differs
\* from its transpose.
C2_Witness ==
    /\ pc = "ready" /\ ValidParams /\ n >= 3
    /\ x[1][2] # x[2][1]
    /\ z[2][3] # z[3][2]

\* C3: the steps used by compute_surface_area are the spacings of the
\* generated samples, du = u[1] - u[0] = 2 pi / (n - 1) and
\* dv = v[1] - v[0] = w / (n - 1), up to one unit of rounding.
C3_StepsAreGridSpacing ==
    (areaRet = "ok" /\ ValidParams) =>
        /\ Abs(du - (u[2] - u[1])) <= 1
        /\ Abs(dv - (v[2] - v[1])) <= 1

\* C4: for valid parameters compute_surface_area and compute_edge_length
\* return finite, nonnegative numbers, for odd and for even n.
C4_FiniteNonnegative ==
    ValidParams =>
        /\ areaRet # "unset" => (areaRet # "nan" /\ area >= 0)
        /\ lengthRet # "unset" => length >= 0

\* Both results returned, positive, for an even n >= 4, where simpson
\* applies its end correction.
C4_Witness ==
    /\ ValidParams /\ n % 2 = 0 /\ n >= 4
    /\ areaRet = "ok" /\ area > 0
    /\ lengthRet = "ok" /\ length > 0

\* C5: for n >= 2 with valid R and w neither computation raises.
C5_NoErrorForSmallN ==
    ValidParams =>
        /\ areaRet \notin {"ValueError", "IndexError"}
        /\ lengthRet \notin {"ValueError", "IndexError"}

\* Both computations have returned for the smallest resolution n = 2.
C5_Witness ==
    /\ ValidParams /\ n = 2
    /\ areaRet = "ok" /\ lengthRet = "ok"

\* C6: the edge-length procedure gives the same length on the boundary at
\* v = +w/2 and on the boundary at v = -w/2 (up to rounding), so the
\* returned total is the sum of the two boundary lengths.
C6_EdgeSymmetry ==
    (lengthRet = "ok" /\ ValidParams) =>
        LET pos == edge_length(R, n, RDiv(w, 2), even)
            neg == edge_length(R, n, -RDiv(w, 2), even)
        IN  /\ Abs(pos - neg) <= EdgeTol
            /\ Abs(length - (pos + neg)) <= EdgeTol

\* C7: once constructed, no call changes the parameters, the grid or the
\* mesh, and a computation that has returned a value returns that same
\* value when called again, whatever ran in between.
C7_FrameAndRepeatability ==
    [][pc = "ready" =>
          /\ UNCHANGED << params, grid, mesh >>
          /\ (areaRet = "ok" /\ areaRet' = "ok") => area' = area
          /\ (lengthRet = "ok" /\ lengthRet' = "ok") => length' = length]_vars

\* All three operations have run on a valid shape.
C7_Witness ==
    /\ ValidParams /\ n >= 3
    /\ areaRet = "ok" /\ lengthRet = "ok" /\ plots >= 1

\* The finite-difference rule of C8 along a 1-D array f with step h, at k.
DifferenceRule(f, h, k) ==
    IF k = 1 THEN Div(f[2] - f[1], h)
    ELSE IF k = Len(f) THEN Div(f[Len(f)] - f[Len(f) - 1], h)
    ELSE Div(f[k + 1] - f[k - 1], 2 * h)

\* C8: each of the six derivative arrays has the mesh's shape and follows
\* one rule: central differences at interior indices, one-sided differences
\* at the two boundary indices; the u-derivatives run along the columns with
\* step du, the v-derivatives along the rows with step dv.
C8_DerivativeRule ==
    areaRet = "ok" =>
        /\ \A d \in {dx_du, dy_du, dz_du, dx_dv, dy_dv, dz_dv} :
              Len(d) = n /\ \A i \in 1..n : Len(d[i]) = n
        /\ \A p \in {<< x, dx_du >>, << y, dy_du >>, << z, dz_du >>} :
              \A i \in 1..n : \A j \in 1..n :
                 p[2][i][j] = DifferenceRule(p[1][i], du, j)
        /\ \A p \in {<< x, dx_dv >>, << y, dy_dv >>, << z, dz_dv >>} :
              \A i \in 1..n : \A j \in 1..n :
                 p[2][i][j] = DifferenceRule([r \in 1..n |-> p[1][r][j]], dv, i)

\* Derivatives computed on a valid mesh with interior nodes, not all zero.
C8_Witness ==
    /\ areaRet = "ok" /\ ValidParams /\ n >= 3
    /\ dx_du[2][2] # 0 /\ dz_dv[2][2] # 0

\* The trapezoidal rule on two samples.
Trapezoid(yy, h) == Mul(Mul(RDiv(Scale, 2), h), yy[1] + yy[2])

\* Simpson's rule on an odd number of evenly spaced samples.
CompositeSimpson(yy, h) ==
    Mul(basic_simpson_sum(yy, 0, Len(yy) - 2), RDiv(h, 3))

\* The quadrature C9 names for one array: trapezoid on two samples,
\* Simpson's rule on three or more.
QuadratureRule(yy, h, ev) ==
    IF Len(yy) = 2 THEN Trapezoid(yy, h)
    ELSE IF Len(yy) % 2 = 1 THEN CompositeSimpson(yy, h)
    ELSE simpson(yy, << >>, h, ev)

\* C9: the area density is integrated along u first, one partial integral
\* per row (fixed v), giving a vector of length n, which is then integrated
\* along v; Simpson's rule for n >= 3, the trapezoidal rule for n = 2.
C9_QuadratureOrder ==
    areaRet = "ok" =>
        /\ Len(inner) = n
        /\ \A i \in 1..n : inner[i] = QuadratureRule(cross_mag[i], du, even)
        /\ area = QuadratureRule(inner, dv, even)

\* An area integrated from a density that differs between a row and the
\* matching column, so the order of the two passes shows.
C9_Witness ==
    /\ areaRet = "ok" /\ ValidParams /\ n >= 3
    /\ \E i \in 1..n : cross_mag[i] # Column(cross_mag, i)
    /\ area > 0

\* Other steps compute_surface_area might have used: the spacing of the
\* samples, and the code's own steps negated.
OtherSteps ==
    { << Div(2 * Pi, Num(n - 1)), Div(w, Num(n - 1)) >>,
      << Div(2 * Pi, Num(n - 1)), dv >>,
      << du, Div(w, Num(n - 1)) >>,
      << -du, dv >>,
      << -du, -dv >> }

\* C10 as stated: the returned area is the same for any nonzero steps du, dv.
C10_StepIndependence ==
    (areaRet = "ok" /\ ValidParams) =>
        \A s \in OtherSteps : CloseTo(surface_area(x, y, z, s[1], s[2], even), area)

\* C10 as amended: the returned area is the same for any steps whose
\* product is positive, and is negated when the product is negative.
C10_StepIndependenceUpToSign ==
    (areaRet = "ok" /\ ValidParams) =>
        \A s \in OtherSteps :
            LET other == surface_area(x, y, z, s[1], s[2], even)
            IN  IF (s[1] > 0) = (s[2] > 0) THEN CloseTo(other, area)
                ELSE CloseTo(other, -area)

\* A positive area has been returned for a valid shape.
C10_Witness ==
    /\ areaRet = "ok" /\ ValidParams /\ n >= 3
    /\ area > Scale

=============================================================================
